---- MODULE Spec2Model ----
(***************************************************************************)
(* A model of the CSS parser (src/src/css.rs) and of the style accessors   *)
(* (src/src/style.rs) of the browser engine.                               *)
(*                                                                         *)
(* The source text is a sequence of cells, one per byte.  A one-byte       *)
(* character is one cell holding the character; the two-byte character     *)
(* U+00E9 is the cell "U+00E9" followed by the cell "cont".  The cursor    *)
(* `position` is a byte offset, as in the Rust code.                       *)
(***************************************************************************)
EXTENDS Integers, Sequences, FiniteSets, TLC

\* ------------------------------------------------------------ characters

Digits == {"0", "1", "2", "3", "4", "5", "6", "7", "8", "9"}

LowerLetters ==
    {"a", "b", "c", "d", "e", "f", "g", "h", "i", "j", "k", "l", "m",
     "n", "o", "p", "q", "r", "s", "t", "u", "v", "w", "x", "y", "z"}

UpperLetters ==
    {"A", "B", "C", "D", "E", "F", "G", "H", "I", "J", "K", "L", "M",
     "N", "O", "P", "Q", "R", "S", "T", "U", "V", "W", "X", "Y", "Z"}

\* char::is_whitespace, on the characters of the model
Whitespace == {" ", "\n", "\t"}

\* valid_identifier_char: a-z, A-Z, 0-9, '-' and '_'
IdentChars == LowerLetters \cup UpperLetters \cup Digits \cup {"-", "_"}

valid_identifier_char(c) == c \in IdentChars

\* the characters parse_float consumes: '0'..='9' | '.'
FloatChars == Digits \cup {"."}

WideChar == "U+00E9"

ContCell == "cont"

\* char::len_utf8
len_utf8(c) == IF c = WideChar THEN 2 ELSE 1

DigitVal(c) ==
    CASE c = "0" -> 0 [] c = "1" -> 1 [] c = "2" -> 2 [] c = "3" -> 3
      [] c = "4" -> 4 [] c = "5" -> 5 [] c = "6" -> 6 [] c = "7" -> 7
      [] c = "8" -> 8 [] c = "9" -> 9

HexLetterVal(c) ==
    CASE c \in {"a", "A"} -> 10 [] c \in {"b", "B"} -> 11
      [] c \in {"c", "C"} -> 12 [] c \in {"d", "D"} -> 13
      [] c \in {"e", "E"} -> 14 [] c \in {"f", "F"} -> 15

HexDigits == Digits \cup {"a", "b", "c", "d", "e", "f", "A", "B", "C", "D", "E", "F"}

\* char::to_digit(16), defined on HexDigits
HexVal(c) == IF c \in Digits THEN DigitVal(c) ELSE HexLetterVal(c)

\* str::to_ascii_lowercase, character by character
LowerOf(c) ==
    CASE c = "A" -> "a" [] c = "B" -> "b" [] c = "C" -> "c" [] c = "D" -> "d"
      [] c = "E" -> "e" [] c = "F" -> "f" [] c = "G" -> "g" [] c = "H" -> "h"
      [] c = "I" -> "i" [] c = "J" -> "j" [] c = "K" -> "k" [] c = "L" -> "l"
      [] c = "M" -> "m" [] c = "N" -> "n" [] c = "O" -> "o" [] c = "P" -> "p"
      [] c = "Q" -> "q" [] c = "R" -> "r" [] c = "S" -> "s" [] c = "T" -> "t"
      [] c = "U" -> "u" [] c = "V" -> "v" [] c = "W" -> "w" [] c = "X" -> "x"
      [] c = "Y" -> "y" [] c = "Z" -> "z" [] OTHER -> c

to_ascii_lowercase(s) == [i \in 1..Len(s) |-> LowerOf(s[i])]

\* ------------------------------------------------------------ failures

(* A panic, named by the place that raises it:                             *)
(*   OutOfBounds            next_char's unwrap at the end of the input     *)
(*   UnexpectedInput        expect_char's panic!                           *)
(*   SliceIndex             the slice of parse_hex_pair                    *)
(*   InvalidColor           parse_hex_pair's unwrap of from_str_radix      *)
(*   UnknownUnit            parse_unit's panic!                            *)
(*   MalformedNumber        parse_float's unwrap of str::parse             *)
(*   UnexpectedSelectorChar parse_selectors' panic!                        *)
(* `expected` is the literal expect_char was called with ("" elsewhere).   *)
Failure(kind, expected) == [kind |-> kind, expected |-> expected]

NoError == Failure("none", "")

\* ------------------------------------------------------------ scanner

\* Parser::eof
eof(inp, pos) == pos >= Len(inp)

\* Parser::next_char; it panics (OutOfBounds) when eof, which callers test
next_char(inp, pos) == inp[pos + 1]

\* Parser::consume_while: the position after the longest run of characters
\* of `test` starting at pos
RECURSIVE consume_while(_, _, _)
consume_while(inp, pos, test) ==
    IF ~eof(inp, pos) /\ next_char(inp, pos) \in test
    THEN consume_while(inp, pos + len_utf8(next_char(inp, pos)), test)
    ELSE pos

\* the text between two byte offsets
Text(inp, from, to) == SubSeq(inp, from + 1, to)

\* Parser::consume_whitespace
consume_whitespace(inp, pos) == consume_while(inp, pos, Whitespace)

\* Parser::parse_identifier: the position after the identifier
parse_identifier(inp, pos) == consume_while(inp, pos, IdentChars)

\* an expect_char that tests for the end of the input itself and reports the
\* missing literal
expect_char_eof_unexpected(inp, pos, c) ==
    IF eof(inp, pos)
    THEN [ok |-> FALSE, position |-> pos, err |-> Failure("UnexpectedInput", c)]
    ELSE LET got == next_char(inp, pos)
             p == pos + len_utf8(got)
         IN IF got # c
            THEN [ok |-> FALSE, position |-> p, err |-> Failure("UnexpectedInput", c)]
            ELSE [ok |-> TRUE, position |-> p, err |-> NoError]

\* Parser::consume_char followed by the comparison of Parser::expect_char
expect_char(inp, pos, c) ==
    IF eof(inp, pos)
    THEN [ok |-> FALSE, position |-> pos, err |-> Failure("OutOfBounds", c)]
    ELSE LET got == next_char(inp, pos)
             p == pos + len_utf8(got)
         IN IF got # c
            THEN [ok |-> FALSE, position |-> p, err |-> Failure("UnexpectedInput", c)]
            ELSE [ok |-> TRUE, position |-> p, err |-> NoError]

\* ------------------------------------------------------------ values

\* u8::from_str_radix(s, 16) on a two-byte s: an optional leading '+' is
\* accepted, then one or more hex digits; <<>> is Err, <<v>> is Ok(v)
from_str_radix16(s) ==
    IF s[1] = "+"
    THEN IF s[2] \in HexDigits THEN <<HexVal(s[2])>> ELSE <<>>
    ELSE IF s[1] \in HexDigits /\ s[2] \in HexDigits
         THEN <<16 * HexVal(s[1]) + HexVal(s[2])>>
         ELSE <<>>

\* whether byte offset p is a character boundary of inp (str::is_char_boundary)
is_char_boundary(inp, p) == p = Len(inp) \/ (p < Len(inp) /\ inp[p + 1] # ContCell)

\* parse_hex_pair with the cursor moved before the slice is taken
parse_hex_pair_advance_first(inp, pos) ==
    IF pos + 2 > Len(inp) \/ ~is_char_boundary(inp, pos + 2)
    THEN [ok |-> FALSE, position |-> pos + 2, value |-> 0, err |-> Failure("SliceIndex", "")]
    ELSE LET r == from_str_radix16(Text(inp, pos, pos + 2))
         IN IF r = <<>>
            THEN [ok |-> FALSE, position |-> pos + 2, value |-> 0,
                  err |-> Failure("InvalidColor", "")]
            ELSE [ok |-> TRUE, position |-> pos + 2, value |-> r[1], err |-> NoError]

\* Parser::parse_hex_pair
parse_hex_pair(inp, pos) ==
    IF pos + 2 > Len(inp) \/ ~is_char_boundary(inp, pos + 2)
    THEN [ok |-> FALSE, position |-> pos, value |-> 0, err |-> Failure("SliceIndex", "")]
    ELSE LET r == from_str_radix16(Text(inp, pos, pos + 2))
         IN IF r = <<>>
            THEN [ok |-> FALSE, position |-> pos + 2, value |-> 0,
                  err |-> Failure("InvalidColor", "")]
            ELSE [ok |-> TRUE, position |-> pos + 2, value |-> r[1], err |-> NoError]

Keyword(s) == [type |-> "Keyword", s |-> s]

Length(f, unit) == [type |-> "Length", f |-> f, unit |-> unit]

ColorValue(r, g, b, a) == [type |-> "ColorValue", r |-> r, g |-> g, b |-> b, a |-> a]

NoValue == [type |-> "none"]

\* Parser::parse_color
parse_color(inp, pos) ==
    LET h == expect_char(inp, pos, "#")
        r == parse_hex_pair(inp, h.position)
        g == parse_hex_pair(inp, r.position)
        b == parse_hex_pair(inp, g.position)
    IN IF ~h.ok THEN [ok |-> FALSE, position |-> h.position, value |-> NoValue, err |-> h.err]
       ELSE IF ~r.ok THEN [ok |-> FALSE, position |-> r.position, value |-> NoValue, err |-> r.err]
       ELSE IF ~g.ok THEN [ok |-> FALSE, position |-> g.position, value |-> NoValue, err |-> g.err]
       ELSE IF ~b.ok THEN [ok |-> FALSE, position |-> b.position, value |-> NoValue, err |-> b.err]
       ELSE [ok |-> TRUE, position |-> b.position,
             value |-> ColorValue(r.value, g.value, b.value, 255), err |-> NoError]

\* Parser::parse_unit
parse_unit(inp, pos) ==
    LET p == parse_identifier(inp, pos)
    IN IF to_ascii_lowercase(Text(inp, pos, p)) = <<"p", "x">>
       THEN [ok |-> TRUE, position |-> p, unit |-> "Px", err |-> NoError]
       ELSE [ok |-> FALSE, position |-> p, unit |-> "none", err |-> Failure("UnknownUnit", "")]

RECURSIVE DecimalOf(_)
\* the number a sequence of decimal digits denotes
DecimalOf(ds) ==
    IF ds = <<>> THEN 0
    ELSE 10 * DecimalOf(SubSeq(ds, 1, Len(ds) - 1)) + DigitVal(ds[Len(ds)])

RECURSIVE StripZeros(_)
\* a fraction without its trailing zeros
StripZeros(ds) ==
    IF ds # <<>> /\ ds[Len(ds)] = "0" THEN StripZeros(SubSeq(ds, 1, Len(ds) - 1)) ELSE ds

\* str::parse::<f32> on a text of digits and dots: Err (<<>>) unless the text has
\* a digit and at most one dot; Ok(<<n, k>>) stands for the number n / 10^k
parse_f32(s) ==
    LET dots == {i \in 1..Len(s) : s[i] = "."}
    IN IF Cardinality(dots) > 1 \/ Cardinality(dots) = Len(s) THEN <<>>
       ELSE IF dots = {} THEN << <<DecimalOf(s), 0>> >>
       ELSE LET d == CHOOSE i \in dots : TRUE
                frac == StripZeros(SubSeq(s, d + 1, Len(s)))
            IN << <<DecimalOf(SubSeq(s, 1, d - 1) \o frac), Len(frac)>> >>

\* Parser::parse_float
parse_float(inp, pos) ==
    LET p == consume_while(inp, pos, FloatChars)
        r == parse_f32(Text(inp, pos, p))
    IN IF r = <<>>
       THEN [ok |-> FALSE, position |-> p, f |-> <<0, 0>>, err |-> Failure("MalformedNumber", "")]
       ELSE [ok |-> TRUE, position |-> p, f |-> r[1], err |-> NoError]

\* Parser::parse_length
parse_length(inp, pos) ==
    LET f == parse_float(inp, pos)
        u == parse_unit(inp, f.position)
    IN IF ~f.ok THEN [ok |-> FALSE, position |-> f.position, value |-> NoValue, err |-> f.err]
       ELSE IF ~u.ok THEN [ok |-> FALSE, position |-> u.position, value |-> NoValue, err |-> u.err]
       ELSE [ok |-> TRUE, position |-> u.position, value |-> Length(f.f, u.unit), err |-> NoError]

\* Parser::parse_value
parse_value(inp, pos) ==
    IF eof(inp, pos)
    THEN [ok |-> FALSE, position |-> pos, value |-> NoValue, err |-> Failure("OutOfBounds", "")]
    ELSE LET c == next_char(inp, pos)
         IN IF c \in Digits THEN parse_length(inp, pos)
            ELSE IF c = "#" THEN parse_color(inp, pos)
            ELSE LET p == parse_identifier(inp, pos)
                 IN [ok |-> TRUE, position |-> p, value |-> Keyword(Text(inp, pos, p)),
                     err |-> NoError]

\* ------------------------------------------------------------ selectors

\* Option<T>: None is <<>> and Some(x) is <<x>>, so that Option::iter().count()
\* is the length
None == <<>>

Some(x) == <<x>>

\* SimpleSelector
SimpleSelector(tag_name, id, class) == [tag_name |-> tag_name, id |-> id, class |-> class]

\* a specificity whose class count is 1 when there is any class
specificity_any_class(sel) ==
    <<Len(sel.id), IF sel.class = <<>> THEN 0 ELSE 1, Len(sel.tag_name)>>

\* Selector::specificity
specificity(sel) == <<Len(sel.id), Len(sel.class), Len(sel.tag_name)>>

\* an order that weighs the tag most, then the class, then the id
SpecificityLess_tag_first(a, b) ==
    \/ a[3] < b[3]
    \/ a[3] = b[3] /\ a[2] < b[2]
    \/ a[3] = b[3] /\ a[2] = b[2] /\ a[1] < b[1]

\* the order of Specificity, a tuple (usize, usize, usize): Rust orders tuples
\* lexicographically
SpecificityLess(a, b) ==
    \/ a[1] < b[1]
    \/ a[1] = b[1] /\ a[2] < b[2]
    \/ a[1] = b[1] /\ a[2] = b[2] /\ a[3] < b[3]

RECURSIVE simple_selector_loop(_, _, _)
\* the while loop of Parser::parse_simple_selector
simple_selector_loop(inp, pos, sel) ==
    IF eof(inp, pos) THEN [position |-> pos, selector |-> sel]
    ELSE LET c == next_char(inp, pos)
             p == parse_identifier(inp, pos + 1)
         IN CASE c = "#" ->
                   simple_selector_loop(inp, p, [sel EXCEPT !.id = Some(Text(inp, pos + 1, p))])
              [] c = "." ->
                   simple_selector_loop(inp, p,
                       [sel EXCEPT !.class = Append(@, Text(inp, pos + 1, p))])
              [] c = "*" -> simple_selector_loop(inp, pos + 1, sel)
              [] valid_identifier_char(c) ->
                   LET q == parse_identifier(inp, pos)
                   IN simple_selector_loop(inp, q,
                          [sel EXCEPT !.tag_name = Some(Text(inp, pos, q))])
              [] OTHER -> [position |-> pos, selector |-> sel]

\* Parser::parse_simple_selector
parse_simple_selector(inp, pos) ==
    simple_selector_loop(inp, pos, SimpleSelector(None, None, <<>>))

\* one insertion of a stable sort: x goes after every element whose key is not
\* greater than its own
InsertByKey(sorted, x) ==
    LET after == {i \in 1..Len(sorted) :
                     SpecificityLess(specificity(x), specificity(sorted[i]))}
        k == IF after = {} THEN Len(sorted) + 1
             ELSE CHOOSE i \in after : \A j \in after : i <= j
    IN SubSeq(sorted, 1, k - 1) \o <<x>> \o SubSeq(sorted, k, Len(sorted))

RECURSIVE sort_descending(_)
\* a sort with the highest specificity first
sort_descending(sels) ==
    IF sels = <<>> THEN <<>>
    ELSE LET rest == sort_descending(SubSeq(sels, 1, Len(sels) - 1))
             x == sels[Len(sels)]
             before == {i \in 1..Len(rest) :
                           SpecificityLess(specificity(rest[i]), specificity(x))}
             k == IF before = {} THEN Len(rest) + 1
                  ELSE CHOOSE i \in before : \A j \in before : i <= j
         IN SubSeq(rest, 1, k - 1) \o <<x>> \o SubSeq(rest, k, Len(rest))

RECURSIVE sort_by_key(_)
\* selectors.sort_by_key(|s| s.specificity()): a stable sort, ascending by key
sort_by_key(sels) ==
    IF sels = <<>> THEN <<>>
    ELSE InsertByKey(sort_by_key(SubSeq(sels, 1, Len(sels) - 1)), sels[Len(sels)])

\* ------------------------------------------------------------ declarations

Declaration(name, value) == [name |-> name, value |-> value]

NoDeclaration == [name |-> <<>>, value |-> NoValue]

\* a parse_declaration that skips no whitespace before the ':'
parse_declaration_no_space(inp, pos) ==
    LET p1 == parse_identifier(inp, pos)
        colon == expect_char(inp, p1, ":")
        v == parse_value(inp, consume_whitespace(inp, colon.position))
        semi == expect_char(inp, consume_whitespace(inp, v.position), ";")
    IN IF ~colon.ok
       THEN [ok |-> FALSE, position |-> colon.position, declaration |-> NoDeclaration,
             err |-> colon.err]
       ELSE IF ~v.ok
       THEN [ok |-> FALSE, position |-> v.position, declaration |-> NoDeclaration,
             err |-> v.err]
       ELSE IF ~semi.ok
       THEN [ok |-> FALSE, position |-> semi.position, declaration |-> NoDeclaration,
             err |-> semi.err]
       ELSE [ok |-> TRUE, position |-> semi.position,
             declaration |-> Declaration(Text(inp, pos, p1), v.value), err |-> NoError]

\* Parser::parse_declaration
parse_declaration(inp, pos) ==
    LET p1 == parse_identifier(inp, pos)
        colon == expect_char(inp, consume_whitespace(inp, p1), ":")
        v == parse_value(inp, consume_whitespace(inp, colon.position))
        semi == expect_char(inp, consume_whitespace(inp, v.position), ";")
    IN IF ~colon.ok
       THEN [ok |-> FALSE, position |-> colon.position, declaration |-> NoDeclaration,
             err |-> colon.err]
       ELSE IF ~v.ok
       THEN [ok |-> FALSE, position |-> v.position, declaration |-> NoDeclaration,
             err |-> v.err]
       ELSE IF ~semi.ok
       THEN [ok |-> FALSE, position |-> semi.position, declaration |-> NoDeclaration,
             err |-> semi.err]
       ELSE [ok |-> TRUE, position |-> semi.position,
             declaration |-> Declaration(Text(inp, pos, p1), v.value), err |-> NoError]

Rule(sels, decls) == [selectors |-> sels, declarations |-> decls]

Stylesheet(rs) == [rules |-> rs]

\* ------------------------------------------------------------ the parse, step by step

(* A parser state: the Parser's fields (input, position), the place the    *)
(* parse has reached (pc), the vectors under construction, the value       *)
(* css::parse has returned (stylesheet, None until it returns) and the     *)
(* panic that ended the parse (err).                                       *)
(*   pc = "rules"      at the top of the loop of parse_rules               *)
(*   pc = "selectors"  at the top of the loop of parse_selectors           *)
(*   pc = "block"      parse_selectors has returned; parse_declarations    *)
(*                     is about to start                                   *)
(*   pc = "decls"      at the top of the loop of parse_declarations        *)
(*   pc = "done"       css::parse has returned                             *)
(*   pc = "failed"     the parse has panicked                              *)
Start(source) ==
    [input |-> source, position |-> 0, pc |-> "rules", selectors |-> <<>>,
     declarations |-> <<>>, rules |-> <<>>, stylesheet |-> None, err |-> NoError]

Panic(s, pos, e) == [s EXCEPT !.position = pos, !.pc = "failed", !.err = e]

\* one iteration of the loop of Parser::parse_rules, up to the call of
\* parse_rule; at the end of the input css::parse returns the Stylesheet
parse_rules_step(s) ==
    LET p == consume_whitespace(s.input, s.position)
    IN IF eof(s.input, p)
       THEN [s EXCEPT !.position = p, !.pc = "done", !.stylesheet = Some(Stylesheet(s.rules))]
       ELSE [s EXCEPT !.position = p, !.pc = "selectors", !.selectors = <<>>]

\* parse_selectors_step without the consume_char of the ',' (the loop then
\* reads the same ',' again)
parse_selectors_step_keep_comma(s) ==
    LET r == parse_simple_selector(s.input, s.position)
        sels == Append(s.selectors, r.selector)
        p == consume_whitespace(s.input, r.position)
        t == [s EXCEPT !.selectors = sels]
    IN IF eof(s.input, p) THEN Panic(t, p, Failure("OutOfBounds", ""))
       ELSE LET c == next_char(s.input, p)
            IN CASE c = "," -> [t EXCEPT !.position = p]
                 [] c = "{" ->
                      [t EXCEPT !.position = p, !.selectors = sort_by_key(sels),
                                !.pc = "block"]
                 [] OTHER -> Panic(t, p, Failure("UnexpectedSelectorChar", ""))

\* one iteration of the loop of Parser::parse_selectors; on '{' the sort and
\* the return
parse_selectors_step(s) ==
    LET r == parse_simple_selector(s.input, s.position)
        sels == Append(s.selectors, r.selector)
        p == consume_whitespace(s.input, r.position)
        t == [s EXCEPT !.selectors = sels]
    IN IF eof(s.input, p) THEN Panic(t, p, Failure("OutOfBounds", ""))
       ELSE LET c == next_char(s.input, p)
            IN CASE c = "," ->
                      [t EXCEPT !.position = consume_whitespace(s.input, p + 1)]
                 [] c = "{" ->
                      [t EXCEPT !.position = p, !.selectors = sort_by_key(sels),
                                !.pc = "block"]
                 [] OTHER -> Panic(t, p, Failure("UnexpectedSelectorChar", ""))

\* the start of Parser::parse_declarations: expect_char('{') and the empty vector
parse_declarations_open(s) ==
    LET b == expect_char(s.input, s.position, "{")
    IN IF ~b.ok THEN Panic(s, b.position, b.err)
       ELSE [s EXCEPT !.position = b.position, !.pc = "decls", !.declarations = <<>>]

\* parse_declarations_step with the Rule put at the front of the vector
\* (insert(0, ..) for push)
parse_declarations_step_prepend(s) ==
    LET p == consume_whitespace(s.input, s.position)
    IN IF eof(s.input, p) THEN Panic(s, p, Failure("OutOfBounds", ""))
       ELSE IF next_char(s.input, p) = "}"
       THEN [s EXCEPT !.position = p + 1, !.pc = "rules",
                      !.rules = <<Rule(s.selectors, s.declarations)>> \o @,
                      !.selectors = <<>>, !.declarations = <<>>]
       ELSE LET d == parse_declaration(s.input, p)
            IN IF ~d.ok THEN Panic(s, d.position, d.err)
               ELSE [s EXCEPT !.position = d.position,
                              !.declarations = Append(@, d.declaration)]

\* one iteration of the loop of Parser::parse_declarations; on '}' the Rule is
\* built by parse_rule and pushed by parse_rules
parse_declarations_step(s) ==
    LET p == consume_whitespace(s.input, s.position)
    IN IF eof(s.input, p) THEN Panic(s, p, Failure("OutOfBounds", ""))
       ELSE IF next_char(s.input, p) = "}"
       THEN [s EXCEPT !.position = p + 1, !.pc = "rules",
                      !.rules = Append(@, Rule(s.selectors, s.declarations)),
                      !.selectors = <<>>, !.declarations = <<>>]
       ELSE LET d == parse_declaration(s.input, p)
            IN IF ~d.ok THEN Panic(s, d.position, d.err)
               ELSE [s EXCEPT !.position = d.position,
                              !.declarations = Append(@, d.declaration)]

Step(s) ==
    CASE s.pc = "rules" -> parse_rules_step(s)
      [] s.pc = "selectors" -> parse_selectors_step(s)
      [] s.pc = "block" -> parse_declarations_open(s)
      [] s.pc = "decls" -> parse_declarations_step(s)
      [] OTHER -> s

RECURSIVE Run(_)
Run(s) == IF s.pc \in {"done", "failed"} THEN s ELSE Run(Step(s))

\* css::parse, from the source to its return or its panic
parse(source) == Run(Start(source))

\* ------------------------------------------------------------ the source texts

(* A source text is written as its grammar tokens (spec section 6), so that *)
(* the places between two tokens are known.  A length is the two tokens    *)
(* `number unit` of the grammar.                                           *)
Tok(kind, text) == [kind |-> kind, text |-> text]

ExampleHeadings ==
    << Tok("selector", <<"h", "1">>),
       Tok("punct", <<",">>),
       Tok("space", <<" ">>),
       Tok("selector", <<"h", "2">>),
       Tok("punct", <<",">>),
       Tok("space", <<" ">>),
       Tok("selector", <<"h", "3">>),
       Tok("space", <<" ">>),
       Tok("punct", <<"{">>),
       Tok("space", <<" ">>),
       Tok("ident", <<"m", "a", "r", "g", "i", "n">>),
       Tok("punct", <<":">>),
       Tok("space", <<" ">>),
       Tok("ident", <<"a", "u", "t", "o">>),
       Tok("punct", <<";">>),
       Tok("space", <<" ">>),
       Tok("ident", <<"c", "o", "l", "o", "r">>),
       Tok("punct", <<":">>),
       Tok("space", <<" ">>),
       Tok("color", <<"#", "c", "c", "0", "0", "0", "0">>),
       Tok("punct", <<";">>),
       Tok("space", <<" ">>),
       Tok("punct", <<"}">>) >>

ExampleNote ==
    << Tok("selector", <<"d", "i", "v", ".", "n", "o", "t", "e">>),
       Tok("space", <<" ">>),
       Tok("punct", <<"{">>),
       Tok("space", <<" ">>),
       Tok("ident", <<"m", "a", "r", "g", "i", "n", "-", "b", "o", "t", "t", "o", "m">>),
       Tok("punct", <<":">>),
       Tok("space", <<" ">>),
       Tok("number", <<"2", "0">>),
       Tok("unit", <<"p", "x">>),
       Tok("punct", <<";">>),
       Tok("space", <<" ">>),
       Tok("ident", <<"p", "a", "d", "d", "i", "n", "g">>),
       Tok("punct", <<":">>),
       Tok("space", <<" ">>),
       Tok("number", <<"1", "0">>),
       Tok("unit", <<"p", "x">>),
       Tok("punct", <<";">>),
       Tok("space", <<" ">>),
       Tok("punct", <<"}">>) >>

ExampleAnswer ==
    << Tok("selector", <<"#", "a", "n", "s", "w", "e", "r">>),
       Tok("space", <<" ">>),
       Tok("punct", <<"{">>),
       Tok("space", <<" ">>),
       Tok("ident", <<"d", "i", "s", "p", "l", "a", "y">>),
       Tok("punct", <<":">>),
       Tok("space", <<" ">>),
       Tok("ident", <<"n", "o", "n", "e">>),
       Tok("punct", <<";">>),
       Tok("space", <<" ">>),
       Tok("punct", <<"}">>) >>

ExampleMalformed ==
    << Tok("selector", <<"h", "1">>),
       Tok("space", <<" ">>),
       Tok("punct", <<"{">>),
       Tok("space", <<" ">>),
       Tok("ident", <<"m", "a", "r", "g", "i", "n">>),
       Tok("space", <<" ">>),
       Tok("ident", <<"a", "u", "t", "o">>),
       Tok("punct", <<";">>),
       Tok("space", <<" ">>),
       Tok("punct", <<"}">>) >>

ExampleCompact ==
    << Tok("selector", <<"p">>),
       Tok("punct", <<"{">>),
       Tok("ident", <<"c">>),
       Tok("punct", <<":">>),
       Tok("ident", <<"r", "e", "d">>),
       Tok("punct", <<";">>),
       Tok("punct", <<"}">>),
       Tok("selector", <<".", "x">>),
       Tok("punct", <<",">>),
       Tok("selector", <<"*">>),
       Tok("punct", <<"{">>),
       Tok("ident", <<"c">>),
       Tok("punct", <<":">>),
       Tok("color", <<"#", "0", "0", "0", "0", "f", "f">>),
       Tok("punct", <<";">>),
       Tok("ident", <<"w">>),
       Tok("punct", <<":">>),
       Tok("number", <<"1", ".", "5">>),
       Tok("unit", <<"p", "x">>),
       Tok("punct", <<";">>),
       Tok("punct", <<"}">>) >>

\* "a { x: ; }": a declaration with nothing in the value position
ExampleEmptyValue ==
    << Tok("selector", <<"a">>),
       Tok("space", <<" ">>),
       Tok("punct", <<"{">>),
       Tok("space", <<" ">>),
       Tok("ident", <<"x">>),
       Tok("punct", <<":">>),
       Tok("space", <<" ">>),
       Tok("punct", <<";">>),
       Tok("space", <<" ">>),
       Tok("punct", <<"}">>) >>

Corpus ==
    << ExampleHeadings, ExampleNote, ExampleAnswer, ExampleMalformed, ExampleCompact,
       ExampleEmptyValue >>

RECURSIVE Flatten(_)
\* the text of a token sequence
Flatten(ts) == IF ts = <<>> THEN <<>> ELSE Head(ts).text \o Flatten(Tail(ts))

BaseText(i) == Flatten(Corpus[i])

\* the places between two tokens of a token sequence, as offsets into its text
Boundaries(ts) == {Len(Flatten(SubSeq(ts, 1, k))) : k \in 1..(Len(ts) - 1)}

\* the places between a number and its unit
NumberUnitBoundaries(ts) ==
    {Len(Flatten(SubSeq(ts, 1, k))) :
        k \in {j \in 1..(Len(ts) - 1) : ts[j].kind = "number" /\ ts[j + 1].kind = "unit"}}

\* the characters an edit inserts
EditChars == {" ", "\n", "+", ";", ":", "{", "}", ",", "#", ".", "*", "1", "f", "x", WideChar}

\* the cells of a character
Cells(c) == IF c = WideChar THEN <<WideChar, ContCell>> ELSE <<c>>

\* the selector texts of the selector lists
SelectorTexts ==
    << <<"*">>, <<"d", "i", "v">>, <<"p">>, <<".", "c">>, <<"#", "x">>,
       <<"d", "i", "v", ".", "c">>, <<".", "c", ".", "d">>, <<"p", "#", "x">> >>

\* the longest selector list
MaxSelectors == 3

RECURSIVE JoinSelectors(_)
\* the selector texts of the indexes `list`, separated by commas
JoinSelectors(list) ==
    IF Len(list) = 1 THEN SelectorTexts[list[1]]
    ELSE SelectorTexts[list[1]] \o <<",">> \o JoinSelectors(Tail(list))

(* Where a source text comes from: a selector list followed by an empty    *)
(* block (family "list"), or a text of the corpus with at most one edit    *)
(* (family "text": a character deleted, inserted or replaced at `at`, or   *)
(* the text cut after its first `at` cells).                               *)
Origin(family, list, base, kind, at, ch) ==
    [family |-> family, list |-> list, base |-> base, kind |-> kind, at |-> at, ch |-> ch]

ListOrigins ==
    {Origin("list", l, 0, "none", 0, "") :
        l \in UNION {[1..n -> 1..Len(SelectorTexts)] : n \in 1..MaxSelectors}}

TextOrigins ==
    UNION {
        {Origin("text", <<>>, i, "none", 0, "")}
        \cup {Origin("text", <<>>, i, "delete", at, "") : at \in 1..Len(BaseText(i))}
        \cup {Origin("text", <<>>, i, "truncate", at, "") : at \in 0..(Len(BaseText(i)) - 1)}
        \cup {Origin("text", <<>>, i, "insert", at, c) :
                 at \in 0..Len(BaseText(i)), c \in EditChars}
        \cup {Origin("text", <<>>, i, "replace", at, c) :
                 at \in 1..Len(BaseText(i)), c \in EditChars}
        : i \in 1..Len(Corpus)}

\* the source text of an origin; an insertion at offset `at` puts the character
\* after the first `at` cells
SourceOf(o) ==
    IF o.family = "list" THEN JoinSelectors(o.list) \o <<"{", "}">>
    ELSE LET t == BaseText(o.base)
         IN CASE o.kind = "none" -> t
              [] o.kind = "delete" -> SubSeq(t, 1, o.at - 1) \o SubSeq(t, o.at + 1, Len(t))
              [] o.kind = "truncate" -> SubSeq(t, 1, o.at)
              [] o.kind = "insert" -> SubSeq(t, 1, o.at) \o Cells(o.ch) \o SubSeq(t, o.at + 1, Len(t))
              [] o.kind = "replace" ->
                   SubSeq(t, 1, o.at - 1) \o Cells(o.ch) \o SubSeq(t, o.at + 1, Len(t))

\* ------------------------------------------------------------ the state machine

VARIABLES origin, input, position, pc, selectors, declarations, rules, stylesheet, err,
          specified_values, result

vars == <<origin, input, position, pc, selectors, declarations, rules, stylesheet, err,
          specified_values, result>>

\* no call of an accessor of StyledNode has returned
NoResult == [op |-> "none"]

\* the empty PropertyMap
EmptyMap == [n \in {} |-> NoValue]

\* the parser state the variables hold
Cur ==
    [input |-> input, position |-> position, pc |-> pc, selectors |-> selectors,
     declarations |-> declarations, rules |-> rules, stylesheet |-> stylesheet, err |-> err]

Become(s) ==
    /\ input' = s.input
    /\ position' = s.position
    /\ pc' = s.pc
    /\ selectors' = s.selectors
    /\ declarations' = s.declarations
    /\ rules' = s.rules
    /\ stylesheet' = s.stylesheet
    /\ err' = s.err
    /\ UNCHANGED <<origin, specified_values, result>>

\* css::parse is called: Parser { input: source, position: 0 }
Init ==
    /\ origin \in ListOrigins \cup TextOrigins
    /\ input = SourceOf(origin)
    /\ position = 0
    /\ pc = "rules"
    /\ selectors = <<>>
    /\ declarations = <<>>
    /\ rules = <<>>
    /\ stylesheet = None
    /\ err = NoError
    /\ specified_values = EmptyMap
    /\ result = NoResult

ParseRules == pc = "rules" /\ Become(parse_rules_step(Cur))

ParseSelectors == pc = "selectors" /\ Become(parse_selectors_step(Cur))

ParseDeclarationsOpen == pc = "block" /\ Become(parse_declarations_open(Cur))

ParseDeclarations == pc = "decls" /\ Become(parse_declarations_step(Cur))

Next == ParseRules \/ ParseSelectors \/ ParseDeclarationsOpen \/ ParseDeclarations

Spec == Init /\ [][Next]_vars

\* ------------------------------------------------------------ style accessors

DisplayName == <<"d", "i", "s", "p", "l", "a", "y">>

ColorName == <<"c", "o", "l", "o", "r">>

BackgroundColorName ==
    <<"b", "a", "c", "k", "g", "r", "o", "u", "n", "d", "-", "c", "o", "l", "o", "r">>

WidthName == <<"w", "i", "d", "t", "h">>

Block == <<"b", "l", "o", "c", "k">>

\* the property names the maps of the model hold
PropertyNames == {DisplayName, ColorName, BackgroundColorName}

\* the names lookup is called with; WidthName is in no map
LookupNames == PropertyNames \cup {WidthName}

\* the values the maps of the model hold
StyleValues ==
    {Keyword(Block), Keyword(<<"n", "o", "n", "e">>), Keyword(<<"i", "n", "l", "i", "n", "e">>),
     Keyword(<<"B", "l", "o", "c", "k">>), Length(<<10, 0>>, "Px"), ColorValue(204, 0, 0, 255)}

\* the default values lookup is called with
DefaultValues == {Length(<<0, 0>>, "Px"), ColorValue(0, 0, 0, 0)}

\* PropertyMap: the maps from some of the property names to values
PropertyMaps == UNION {[D -> StyleValues] : D \in SUBSET PropertyNames}

\* StyledNode::value: self.specified_values.get(name).cloned()
value(m, name) == IF name \in DOMAIN m THEN Some(m[name]) ELSE None

\* a lookup that tries the fallback name first
lookup_fallback_first(m, name, fallback_name, default) ==
    IF value(m, fallback_name) # None THEN value(m, fallback_name)[1]
    ELSE IF value(m, name) # None THEN value(m, name)[1]
    ELSE default

\* StyledNode::lookup
lookup(m, name, fallback_name, default) ==
    IF value(m, name) # None THEN value(m, name)[1]
    ELSE IF value(m, fallback_name) # None THEN value(m, fallback_name)[1]
    ELSE default

\* a display that takes every keyword but "none" for a block
display_block_unless_none(m) ==
    LET v == value(m, DisplayName)
    IN IF v # None /\ v[1].type = "Keyword"
       THEN IF v[1].s = <<"n", "o", "n", "e">> THEN "None" ELSE "Block"
       ELSE "Inline"

\* StyledNode::display
display(m) ==
    LET v == value(m, DisplayName)
    IN IF v # None /\ v[1].type = "Keyword"
       THEN CASE v[1].s = Block -> "Block"
              [] v[1].s = <<"n", "o", "n", "e">> -> "None"
              [] OTHER -> "Inline"
       ELSE "Inline"

\* a StyledNode with some specified values; no parse is running
StyleInit ==
    /\ origin = Origin("none", <<>>, 0, "none", 0, "")
    /\ input = <<>>
    /\ position = 0
    /\ pc = "idle"
    /\ selectors = <<>>
    /\ declarations = <<>>
    /\ rules = <<>>
    /\ stylesheet = None
    /\ err = NoError
    /\ specified_values \in PropertyMaps
    /\ result = NoResult

\* a call of StyledNode::lookup returns
Lookup ==
    /\ \E name \in LookupNames, fallback_name \in LookupNames, default \in DefaultValues :
          result' = [op |-> "lookup", name |-> name, fallback_name |-> fallback_name,
                     default |-> default,
                     value |-> lookup(specified_values, name, fallback_name, default)]
    /\ UNCHANGED <<origin, input, position, pc, selectors, declarations, rules, stylesheet,
                   err, specified_values>>

\* a call of StyledNode::display returns
Display ==
    /\ result' = [op |-> "display", value |-> display(specified_values)]
    /\ UNCHANGED <<origin, input, position, pc, selectors, declarations, rules, stylesheet,
                   err, specified_values>>

StyleNext == Lookup \/ Display

StyleSpec == StyleInit /\ [][StyleNext]_vars

\* ------------------------------------------------------------ claims

\* the selector parse_selectors is about to parse and push
NextSelector == parse_simple_selector(input, position).selector

\* `out` is `inp` reordered ascending by specificity, selectors of equal
\* specificity in their order in `inp`
IsStableSortOf(out, inp) ==
    /\ Len(out) = Len(inp)
    /\ \E f \in [1..Len(inp) -> 1..Len(inp)] :
          /\ \A i, j \in 1..Len(inp) : i # j => f[i] # f[j]
          /\ \A i \in 1..Len(inp) : out[i] = inp[f[i]]
          /\ \A i, j \in 1..Len(inp) :
                i < j => /\ ~SpecificityLess(specificity(out[j]), specificity(out[i]))
                         /\ specificity(out[i]) = specificity(out[j]) => f[i] < f[j]

TagSel(t) == SimpleSelector(Some(t), None, <<>>)

NextSelectorText == Text(input, position, parse_simple_selector(input, position).position)

\* 1 iff the selector text has an id component ('#')
IdCountOf(t) == IF \E i \in 1..Len(t) : t[i] = "#" THEN 1 ELSE 0

\* the number of class components ('.') of the selector text
ClassCountOf(t) == Cardinality({i \in 1..Len(t) : t[i] = "."})

\* 1 iff the selector text has a tag name: an identifier that follows neither
\* '#' nor '.'
TagCountOf(t) ==
    IF \E i \in 1..Len(t) : t[i] \in IdentChars /\ (i = 1 \/ t[i - 1] = "*") THEN 1 ELSE 0

\* C2: the specificity of a parsed selector is (idCount, classCount, tagCount):
\* idCount 1 iff the selector has an id, classCount the number of its class
\* components, tagCount 1 iff it has a tag name ('*' or no tag gives 0).
C2_SpecificityCounts ==
    /\ pc = "selectors" =>
          specificity(NextSelector) =
              <<IdCountOf(NextSelectorText), ClassCountOf(NextSelectorText),
                TagCountOf(NextSelectorText)>>
    /\ \A i \in 1..Len(selectors) :
          LET sel == selectors[i]
          IN specificity(sel) = <<IF sel.id = None THEN 0 ELSE 1, Len(sel.class),
                                  IF sel.tag_name = None THEN 0 ELSE 1>>

\* C2 witness: "p#x,.c.d,*{}" has been parsed: specificities (0,0,0), (0,2,0), (1,0,1)
C2_Witness ==
    /\ pc = "block"
    /\ input = <<"p", "#", "x", ",", ".", "c", ".", "d", ",", "*", "{", "}">>
    /\ Len(selectors) = 3
    /\ specificity(selectors[1]) = <<0, 0, 0>>
    /\ specificity(selectors[2]) = <<0, 2, 0>>
    /\ specificity(selectors[3]) = <<1, 0, 1>>

\* a specificity as one number: id weighs most, then class, then tag
Weight(a) == LET w == Len(input) + 1 IN a[1] * w * w + a[2] * w + a[3]

IdOnly(sel) == sel.id # None /\ sel.class = <<>> /\ sel.tag_name = None

ClassOnly(sel) == sel.id = None /\ Len(sel.class) = 1 /\ sel.tag_name = None

TagOnly(sel) == sel.id = None /\ sel.class = <<>> /\ sel.tag_name # None

Universal(sel) == sel.id = None /\ sel.class = <<>> /\ sel.tag_name = None

\* C3: specificities are ordered lexicographically, id first, then class, then
\* tag: #x > .c > div > *, the selectors parse_selectors returns ascend in that
\* order, and two specificities compare equal only when their three components
\* are equal.
C3_LexicographicOrder ==
    pc = "block" =>
        \A i, j \in 1..Len(selectors) :
            LET a == specificity(selectors[i])
                b == specificity(selectors[j])
            IN /\ SpecificityLess(a, b) <=> Weight(a) < Weight(b)
               /\ i < j => Weight(a) <= Weight(b)
               /\ (~SpecificityLess(a, b) /\ ~SpecificityLess(b, a)) <=> a = b
               /\ IdOnly(selectors[i]) /\ ClassOnly(selectors[j]) => SpecificityLess(b, a)
               /\ ClassOnly(selectors[i]) /\ TagOnly(selectors[j]) => SpecificityLess(b, a)
               /\ TagOnly(selectors[i]) /\ Universal(selectors[j]) => SpecificityLess(b, a)

\* C3 witness: "#x,.c,div{}" has been parsed into div, .c, #x
C3_Witness ==
    /\ pc = "block"
    /\ input = <<"#", "x", ",", ".", "c", ",", "d", "i", "v", "{", "}">>
    /\ selectors = <<TagSel(<<"d", "i", "v">>), SimpleSelector(None, None, <<<<"c">>>>),
                     SimpleSelector(None, Some(<<"x">>), <<>>)>>

RECURSIVE DeclarationCount(_)
\* the number of declarations of a sequence of rules
DeclarationCount(rs) ==
    IF rs = <<>> THEN 0 ELSE Len(Head(rs).declarations) + DeclarationCount(Tail(rs))

Occurrences(c) == Cardinality({i \in 1..Len(input) : input[i] = c})

\* parse_declaration did not find the ':' or the ';' it expects
LiteralMissing == pc = "failed" /\ err.expected \in {":", ";"}

\* C5 as claimed: whenever a declaration lacks its ':' or its ';', the parse fails
\* with UnexpectedInput and yields no Stylesheet.
C5_Original == LiteralMissing => err.kind = "UnexpectedInput" /\ stylesheet = None

\* C5 as amended: a parse that fails yields no Stylesheet, whatever it has parsed
\* before; when parse_declaration does not find its ':' or its ';' the parse
\* fails, with UnexpectedInput when another character (never whitespace, which
\* is skipped) stands there and with OutOfBounds when the input ends there; "h1 { margin auto; }" fails with
\* UnexpectedInput; a Stylesheet is returned only for a text that has a ':' and
\* a ';' for each of its declarations.
C5_FatalParseErrors ==
    /\ pc = "failed" => stylesheet = None /\ err.kind # "none"
    /\ stylesheet # None => pc = "done"
    /\ LiteralMissing =>
          \/ /\ err.kind = "UnexpectedInput"
             /\ position >= 1
             /\ input[position] \notin Whitespace \cup {err.expected}
          \/ /\ err.kind = "OutOfBounds"
             /\ position = Len(input)
    /\ (input = Flatten(ExampleMalformed) /\ pc \in {"done", "failed"}) =>
          pc = "failed" /\ err = Failure("UnexpectedInput", ":")
    /\ pc = "done" =>
          /\ DeclarationCount(rules) <= Occurrences(":")
          /\ DeclarationCount(rules) <= Occurrences(";")

\* C5 witness: a second rule lacks its ':' after a first rule has been parsed
C5_Witness ==
    /\ LiteralMissing
    /\ err.kind = "UnexpectedInput"
    /\ Len(rules) >= 1
    /\ stylesheet = None

\* the value positions of the input: the offsets parse_declaration calls
\* parse_value at, after a ':' and the whitespace that follows it
ValuePositions ==
    {consume_whitespace(input, q) : q \in {i \in 1..Len(input) : input[i] = ":"}}

\* C6 as claimed: parse_value at a digit gives a Length, at '#' a Color, at an
\* identifier character a Keyword of that identifier, and fails when the next
\* character is none of these (as in "a { x: ; }").
C6_EmptyValueFails ==
    pc = "done" =>
        \A p \in ValuePositions :
            LET c == next_char(input, p)
                r == parse_value(input, p)
            IN /\ c \in Digits => r.value.type = "Length"
               /\ c = "#" => r.value.type = "ColorValue"
               /\ c \in IdentChars \ Digits =>
                     r.value = Keyword(Text(input, p, parse_identifier(input, p)))
               /\ c \notin IdentChars \cup {"#"} => ~r.ok

\* C7 as claimed: parse_hex_pair accepts two characters only when both are hex
\* digits, and then returns their base-16 value; so every colour of a returned
\* Stylesheet was written as '#' and six hex digits.
C7_HexDigitsOnly ==
    pc = "done" =>
        \A p \in {q \in ValuePositions : next_char(input, q) = "#"} :
            /\ \A k \in 0..2 :
                  LET r == parse_hex_pair(input, p + 1 + 2 * k)
                      c1 == input[p + 2 + 2 * k]
                      c2 == input[p + 3 + 2 * k]
                  IN r.ok => /\ c1 \in HexDigits
                             /\ c2 \in HexDigits
                             /\ r.value = 16 * HexVal(c1) + HexVal(c2)
                             /\ r.position = p + 3 + 2 * k
            /\ parse_color(input, p).value.a = 255

\* the edit put one whitespace character between two tokens of a text
WhitespaceBetweenTokens(places) ==
    /\ origin.family = "text"
    /\ origin.kind = "insert"
    /\ origin.ch \in Whitespace
    /\ origin.at \in places

\* the parse of the text ended as the parse of the unedited text did: with the
\* same Stylesheet
SameAsBase ==
    parse(BaseText(origin.base)).pc = "done" =>
        pc = "done" /\ stylesheet = parse(BaseText(origin.base)).stylesheet

\* C8 as claimed: whitespace put between any two adjacent tokens of an accepted
\* text, between a number and its unit included, leaves the Stylesheet the same.
C8_Original ==
    (pc \in {"done", "failed"} /\ WhitespaceBetweenTokens(Boundaries(Corpus[origin.base])))
        => SameAsBase

\* C8 as amended: whitespace put between two adjacent tokens of an accepted
\* text, other than between a number and its unit, leaves the Stylesheet the
\* same.
C8_WhitespaceInsignificant ==
    (/\ pc \in {"done", "failed"}
     /\ WhitespaceBetweenTokens(Boundaries(Corpus[origin.base])
                                   \ NumberUnitBoundaries(Corpus[origin.base])))
        => SameAsBase

\* C8 witness: "p {c:red;}.x,*{c:#0000ff;w:1.5px;}" has been parsed into the
\* Stylesheet of the text without the space
C8_Witness ==
    /\ pc = "done"
    /\ origin = Origin("text", <<>>, 5, "insert", 1, " ")
    /\ Len(rules) = 2
    /\ stylesheet = parse(BaseText(5)).stylesheet

\* C9: lookup(name, fallbackName, default) returns the value of name when the
\* map has it, else the value of fallbackName when the map has it, else default;
\* it always returns a value and leaves the map as it was.
C9_LookupFallback ==
    /\ [](result.op = "lookup" =>
             /\ result.value =
                   IF result.name \in DOMAIN specified_values
                   THEN specified_values[result.name]
                   ELSE IF result.fallback_name \in DOMAIN specified_values
                        THEN specified_values[result.fallback_name]
                        ELSE result.default
             /\ result.value \in StyleValues \cup DefaultValues)
    /\ [][specified_values' = specified_values]_vars

\* C9 witness: lookup("background-color", "color", default) has returned the
\* value of color from a map without background-color
C9_Witness ==
    /\ result.op = "lookup"
    /\ result.name = BackgroundColorName
    /\ result.fallback_name = ColorName
    /\ BackgroundColorName \notin DOMAIN specified_values
    /\ ColorName \in DOMAIN specified_values
    /\ result.value = specified_values[ColorName]
    /\ result.value # result.default

\* C10: display returns Block iff `display` is Keyword("block"), None iff it is
\* Keyword("none"), and Inline in every other case: no `display`, another
\* keyword, a Length or a Color.
C10_DisplayOf ==
    result.op = "display" =>
        LET has == DisplayName \in DOMAIN specified_values
        IN /\ result.value \in {"Block", "None", "Inline"}
           /\ result.value = "Block" <=> (has /\ specified_values[DisplayName] = Keyword(Block))
           /\ result.value = "None" <=>
                 (has /\ specified_values[DisplayName] = Keyword(<<"n", "o", "n", "e">>))

\* C10 witness: display has returned Inline for a `display` that is a keyword
\* other than block and none
C10_Witness ==
    /\ result.op = "display"
    /\ result.value = "Inline"
    /\ DisplayName \in DOMAIN specified_values
    /\ specified_values[DisplayName] = Keyword(<<"B", "l", "o", "c", "k">>)

\* the offset just after the k-th '}' of the input (0 for k = 0)
ClosingAt(k) ==
    IF k = 0 THEN 0
    ELSE CHOOSE i \in 1..Len(input) :
             /\ input[i] = "}"
             /\ Cardinality({j \in 1..i : input[j] = "}"}) = k

\* the k-th rule text of the input: what stands after the (k-1)-th '}' up to
\* the k-th '}'
RuleText(k) == Text(input, ClosingAt(k - 1), ClosingAt(k))

\* C11: every Rule of a returned Stylesheet has at least one selector and zero
\* or more declarations (the body "{}" is accepted and gives a Rule without
\* declarations), and the Rules stand in the Stylesheet in the order of their
\* texts in the source: the Stylesheet holds the rules vector, the k-th Rule is
\* the Rule of the k-th rule text, and a Rule is only ever put at the end of
\* the vector, further on in the text than the Rules before it.
C11_RulesInSourceOrder ==
    /\ [](\A k \in 1..Len(rules) :
             /\ Len(rules[k].selectors) >= 1
             /\ Len(rules[k].declarations) >= 0)
    /\ [](pc = "done" =>
             /\ stylesheet = Some(Stylesheet(rules))
             /\ Len(rules) = Occurrences("}")
             /\ \A k \in 1..Len(rules) :
                   LET one == parse(RuleText(k))
                   IN one.pc = "done" /\ one.rules = <<rules[k]>>)
    /\ []((pc = "done" /\ origin.family = "list") =>
             /\ Len(rules) = 1
             /\ Len(rules[1].selectors) = Len(origin.list)
             /\ rules[1].declarations = <<>>)
    /\ [][rules' # rules =>
             /\ pc = "decls"
             /\ rules' = Append(rules, Rule(selectors, declarations))
             /\ position' > position]_vars

\* C11 witness: "p{c:red;}.x,*{c:#0000ff;w:1.5px;}" has been parsed into the
\* Rule of p followed by the Rule of .x and *
C11_Witness ==
    /\ pc = "done"
    /\ input = Flatten(ExampleCompact)
    /\ Len(stylesheet[1].rules) = 2
    /\ stylesheet[1].rules[1].selectors = <<TagSel(<<"p">>)>>
    /\ Len(stylesheet[1].rules[1].declarations) = 1
    /\ Len(stylesheet[1].rules[2].selectors) = 2
    /\ Len(stylesheet[1].rules[2].declarations) = 2

\* the parse has ended: css::parse has returned or has panicked
Terminated == pc \in {"done", "failed"}

\* the bytes of the input the cursor has not passed
Remaining == Len(input) - position

\* how far the parse is from its end: the bytes left and, among the places
\* that share a cursor, the place reached in the rule
Measure ==
    4 * Remaining + (CASE pc = "rules" -> 4
                       [] pc = "selectors" -> 3
                       [] pc = "block" -> 2
                       [] pc = "decls" -> 1
                       [] OTHER -> 0)

\* the text is a text that css::parse accepts, cut inside one of its
\* declaration blocks: a block is open and no '}' closes it
UnterminatedBlock ==
    /\ origin.family = "text"
    /\ origin.kind = "truncate"
    /\ Occurrences("{") > Occurrences("}")
    /\ parse(BaseText(origin.base)).pc = "done"

\* C12 as claimed, its last part: a declaration block that is never closed by
\* '}' fails with an out-of-bounds read at the end of the input, be it the
\* read of next_char or the slice of parse_hex_pair.
C12_Original ==
    (Terminated /\ UnterminatedBlock) =>
        /\ pc = "failed"
        /\ \/ err.kind = "OutOfBounds" /\ position = Len(input)
           \/ err.kind = "SliceIndex" /\ position + 2 > Len(input)

\* the input ends inside the length of a declaration: after its number, or
\* inside its number or its unit
EndsInLength ==
    \E p \in ValuePositions :
        /\ p < Len(input)
        /\ next_char(input, p) \in Digits
        /\ parse_identifier(input, consume_while(input, p, FloatChars)) = Len(input)

\* the input ends inside the colour of a declaration: after its '#' and before
\* its sixth hex digit
EndsInColor ==
    \E p \in ValuePositions :
        /\ p < Len(input)
        /\ next_char(input, p) = "#"
        /\ Len(input) - p < 7

\* the cut of the text is between two of its tokens, a number and its unit
\* apart
CutBetweenTokens ==
    origin.at \in Boundaries(Corpus[origin.base]) \ NumberUnitBoundaries(Corpus[origin.base])

\* C12 as amended: css::parse terminates on every source text.  Each step of
\* the parse brings it nearer to its end; the loops of parse_rules,
\* parse_selectors and parse_declarations go round again only after at least
\* one byte has been consumed, and otherwise leave the loop or fail; a parse
\* that has not ended takes a step, so that every parse ends after a number of
\* steps that its text bounds, returning a Stylesheet or failing.  A
\* declaration block that no '}' closes makes the parse fail: with an
\* out-of-bounds read at the end of the input, that of next_char when the input
\* ends between two tokens or in a name or a keyword and that of the slice of
\* parse_hex_pair when it ends in a colour, but with "unrecognized unit" when
\* it ends in a length.
C12_Terminates ==
    /\ [](Measure >= 0)
    /\ [][Measure' < Measure]_vars
    /\ [][(pc' = pc \/ pc' = "rules") => position' > position]_vars
    /\ [](Terminated \/ Step(Cur) # Cur)
    /\ [](pc = "done" => stylesheet # None)
    /\ [](pc = "failed" => stylesheet = None /\ err.kind # "none")
    /\ []((Terminated /\ UnterminatedBlock) =>
             /\ pc = "failed"
             /\ err.kind \in {"OutOfBounds", "UnknownUnit", "SliceIndex"}
             /\ err.kind = "OutOfBounds" => position = Len(input)
             /\ err.kind = "UnknownUnit" => EndsInLength /\ position = Len(input)
             /\ err.kind = "SliceIndex" <=> EndsInColor
             /\ err.kind = "SliceIndex" => position + 2 > Len(input)
             /\ CutBetweenTokens => err.kind = "OutOfBounds")

\* C12 witness: "div.note { margin-bottom: 20px;" has failed with the
\* out-of-bounds read at the end of the input, one declaration parsed
C12_Witness ==
    /\ pc = "failed"
    /\ UnterminatedBlock
    /\ origin.base = 2
    /\ err.kind = "OutOfBounds"
    /\ position = Len(input)
    /\ input[Len(input)] = ";"
    /\ Len(declarations) = 1

\* the offsets from the cursor to the end of the input at which a character
\* starts or the input ends
OffsetsAhead == {p \in position..Len(input) : is_char_boundary(input, p)}

\* the literals expect_char is called with
ExpectedChars == {"{", ":", ";", "#"}

\* C13: in every state of a parse the cursor is within 0..Len(input), and no
\* step moves it backwards; no operation of the scanner or of the parser,
\* called at an offset of the input, leaves the cursor before that offset or
\* past the end of the input, whether it succeeds or fails; css::parse returns
\* with the cursor at the end of the input.
C13_CursorInBounds ==
    /\ [](position \in 0..Len(input))
    /\ [][position' >= position]_vars
    /\ [](pc = "done" => position = Len(input))
    /\ [](\A p \in OffsetsAhead :
             /\ consume_whitespace(input, p) \in p..Len(input)
             /\ parse_identifier(input, p) \in p..Len(input)
             /\ \A c \in ExpectedChars : expect_char(input, p, c).position \in p..Len(input)
             /\ parse_hex_pair(input, p).position \in p..Len(input)
             /\ parse_color(input, p).position \in p..Len(input)
             /\ parse_value(input, p).position \in p..Len(input)
             /\ parse_declaration(input, p).position \in p..Len(input)
             /\ parse_simple_selector(input, p).position \in p..Len(input))

\* C13 witness: parse_hex_pair has failed one byte before the end of the input
\* and has left the cursor there, some bytes into the text
C13_Witness ==
    /\ pc = "failed"
    /\ err.kind = "SliceIndex"
    /\ position > 0
    /\ position = Len(input) - 1

====
